---- MODULE Spec2Model ----
(***************************************************************************)
(* The device broker of python3-remotedevices/remotedevices_server.py:     *)
(* class Devices (registry, lease counts, lease ledger, reverse index),    *)
(* the plugin registry (_g_device_classes, _g_device_id_class) and the     *)
(* module-level whitelist / blacklist.                                     *)
(*                                                                         *)
(* A Python dict is a sequence of <<key, value>> pairs in insertion order  *)
(* (CPython keeps insertion order; the code iterates over its dicts).      *)
(* An operation that can raise returns a record with a field exc.          *)
(***************************************************************************)
EXTENDS Integers, Sequences, FiniteSets, TLC

VARIABLES devinfo, refcount, acquirer, infos, g_device_id_class, whitelist,
          blacklist, lock, pc, now, last

vars == <<devinfo, refcount, acquirer, infos, g_device_id_class, whitelist,
          blacklist, lock, pc, now, last>>

---------------------------------------------------------------------------
(* Bounds of the exploration. *)

\* time.time() is read up to this value; the clock then stands still.
MaxClock == 1

\* leases per device explored on a plugin whose capacity is unlimited
MaxLeases == 2

---------------------------------------------------------------------------
(* Values. *)

None == "<None>"
NoThread == "<unlocked>"
NoExc == "<no exception>"

\* device identifiers, in the order sorted() gives them
SortedIds == <<"A", "B">>
DeviceIds == {SortedIds[n] : n \in DOMAIN SortedIds}

\* acquirer identifiers; "" is the anonymous acquirer
AcquirerIds == {"", "b"}

Threads == {"t1", "t2"}

\* the loaded plugins, in the order of _g_device_classes
g_device_classes == <<"p1", "p2">>
Plugins == {g_device_classes[n] : n \in DOMAIN g_device_classes}

Unlimited == -1
DefaultMaxRefCount == 1

maxRefCount(dc) == IF dc = "p1" THEN DefaultMaxRefCount ELSE Unlimited

\* DeviceInfo(id, type, sw, hw, display)
DeviceInfo(id, type) ==
    [id |-> id, type |-> type, sw |-> "4.2", hw |-> "r1", display |-> "480x800"]

TypeOf(serialNumber) == IF serialNumber = "B" THEN "tablet-1" ELSE "phone-1"

\* what adopt may report for a device: its own record, or a record equal to
\* the one device "A" reports (two devices reporting equal DeviceInfo values)
AdoptInfos(serialNumber) ==
    {DeviceInfo(serialNumber, TypeOf(serialNumber)), DeviceInfo("A", TypeOf("A"))}

Handle(serialNumber) == <<"obj", serialNumber>>

---------------------------------------------------------------------------
(* Python dict: insertion-ordered sequence of <<key, value>>. *)

Keys(d) == {d[n][1] : n \in DOMAIN d}
Has(d, k) == \E n \in DOMAIN d : d[n][1] = k
Get(d, k) == d[CHOOSE n \in DOMAIN d : d[n][1] = k][2]
Put(d, k, v) ==
    IF Has(d, k)
    THEN [n \in DOMAIN d |-> IF d[n][1] = k THEN <<k, v>> ELSE d[n]]
    ELSE Append(d, <<k, v>>)
Del(d, k) == SelectSeq(d, LAMBDA e : e[1] # k)
KeyList(d) == [n \in DOMAIN d |-> d[n][1]]

\* a pop that takes the oldest element, list.pop(0), instead of the last
PopOldest(l) == Tail(l)

\* list.pop(): the list without its last element
Pop(l) == SubSeq(l, 1, Len(l) - 1)

---------------------------------------------------------------------------
(* The broker's fields as one value, for the methods written as operators. *)

Self == [devinfo |-> devinfo, refcount |-> refcount,
         acquirer |-> acquirer, infos |-> infos]

\* Devices.reset
reset == [devinfo |-> <<>>, refcount |-> <<>>, acquirer |-> <<>>, infos |-> <<>>]

\* Devices._validate: TRUE when it does not raise
validate(self, key) == Has(self.refcount, key)

\* Devices.available, for a key that passes _validate
available(self, id_class, key) ==
    LET max == maxRefCount(id_class[key])
    IN  max = Unlimited \/ Get(self.refcount, key) < max

\* re.match(pattern, field): a pattern is given by the set of field values
\* it accepts
re_match(pattern, field) == field \in pattern

\* str(bool) and str.lower on the strings that occur
str(b) == IF b THEN "True" ELSE "False"
lower(s) == CASE s = "True" -> "true" [] s = "False" -> "false"
              [] s = "TRUE" -> "true" [] OTHER -> s

\* Devices._wolock_match; matchArgs.keys are the criteria given
wolock_match(self, id_class, matchArgs) ==
    {Get(self.infos, i) : i \in
        {i \in Keys(self.infos) :
            /\ ("id" \notin matchArgs.keys \/ re_match(matchArgs.id, i.id))
            /\ ("type" \notin matchArgs.keys \/ re_match(matchArgs.type, i.type))
            /\ ("sw" \notin matchArgs.keys \/ re_match(matchArgs.sw, i.sw))
            /\ ("hw" \notin matchArgs.keys \/ re_match(matchArgs.hw, i.hw))
            /\ ("display" \notin matchArgs.keys
                    \/ re_match(matchArgs.display, i.display))
            /\ ("free" \notin matchArgs.keys
                    \/ lower(matchArgs.free)
                         = lower(str(available(self, id_class, Get(self.infos, i)))))
            /\ ("busy" \notin matchArgs.keys
                    \/ lower(matchArgs.busy)
                         = lower(str(~available(self, id_class, Get(self.infos, i)))))}}

\* Devices._wolock_acquire
wolock_acquire(self, key, acq, timestamp) ==
    [self EXCEPT
        !.refcount = Put(@, key, Get(@, key) + 1),
        !.acquirer =
            IF Has(@, acq)
            THEN IF Has(Get(@, acq), key)
                 THEN Put(@, acq, Put(Get(@, acq), key,
                                      Append(Get(Get(@, acq), key), timestamp)))
                 ELSE Put(@, acq, Put(Get(@, acq), key, <<timestamp>>))
            ELSE Put(@, acq, <<<<key, <<timestamp>>>>>>)]

\* the acquirer _wolock_release finds for acquirer=None: the first one, in
\* the ledger's order, with a lease recorded on key; None when there is none
AutoAcquirer(self, key) ==
    LET holders == {n \in DOMAIN self.acquirer :
                        /\ Has(self.acquirer[n][2], key)
                        /\ Len(Get(self.acquirer[n][2], key)) > 0}
    IN  IF holders = {} THEN None
        ELSE self.acquirer[CHOOSE n \in holders : \A m \in holders : n <= m][1]

\* a pop that keeps the acquirer's entry when its last lease goes, as if
\* lines 291-292 were missing
PopLeaseKeepsAcquirer(ledger, acq, key) ==
    IF Len(Get(Get(ledger, acq), key)) = 1
    THEN Put(ledger, acq, Del(Get(ledger, acq), key))
    ELSE Put(ledger, acq, Put(Get(ledger, acq), key,
                              Pop(Get(Get(ledger, acq), key))))

\* lines 288-292: the ledger after one lease of (acq, key) is popped
PopLease(ledger, acq, key) ==
    IF Len(Get(Get(ledger, acq), key)) = 1
    THEN IF Len(Get(ledger, acq)) = 1
         THEN Del(ledger, acq)
         ELSE Put(ledger, acq, Del(Get(ledger, acq), key))
    ELSE Put(ledger, acq, Put(Get(ledger, acq), key,
                              Pop(Get(Get(ledger, acq), key))))

\* a release that drops every lease the acquirer has recorded, on key and
\* on the other devices, as if line 289 deleted self._acquirer[acquirer]
release_lease_forgets_acquirer(self, key, acq) ==
    IF \/ ~Has(self.acquirer, acq)
       \/ ~Has(Get(self.acquirer, acq), key)
       \/ Len(Get(Get(self.acquirer, acq), key)) = 0
    THEN [self |-> self, exc |-> "ValueError: has not acquired", acquirer |-> acq]
    ELSE [self |-> [self EXCEPT !.refcount = Put(@, key, Get(@, key) - 1),
                                !.acquirer = Del(@, acq)],
          exc |-> NoExc, acquirer |-> acq]

\* lines 283-294: acq is the acquirer released for
release_lease(self, key, acq) ==
    IF \/ ~Has(self.acquirer, acq)
       \/ ~Has(Get(self.acquirer, acq), key)
       \/ Len(Get(Get(self.acquirer, acq), key)) = 0
    THEN [self |-> self, exc |-> "ValueError: has not acquired", acquirer |-> acq]
    ELSE [self |-> [self EXCEPT !.refcount = Put(@, key, Get(@, key) - 1),
                                !.acquirer = PopLease(@, acq, key)],
          exc |-> NoExc, acquirer |-> acq]

\* Devices._wolock_release: [self, exc, acquirer (the one released for)]
wolock_release(self, key, acqArg) ==
    IF ~Has(self.refcount, key)
    THEN [self |-> self, exc |-> "KeyError", acquirer |-> acqArg]
    ELSE IF Get(self.refcount, key) = 0
    THEN [self |-> self, exc |-> "ValueError: not acquired", acquirer |-> acqArg]
    ELSE release_lease(self, key,
                       IF acqArg = None THEN AutoAcquirer(self, key) ELSE acqArg)

\* Devices._wolock_add; adopted is what the plugin's adopt does:
\* [ok |-> FALSE] when it raises, else [ok |-> TRUE, d |-> handle, i |-> info]
wolock_add(self, serialNumber, adopted) ==
    IF ~adopted.ok
    THEN [self |-> self, exc |-> "PluginError"]
    ELSE [self |-> [self EXCEPT
                        !.devinfo = Put(@, serialNumber, <<adopted.d, adopted.i>>),
                        !.refcount = Put(@, serialNumber, 0),
                        !.infos = Put(@, adopted.i, serialNumber)],
          exc |-> NoExc]

\* lines 369-373: the entries are deleted; i is the info of the device
remove_delete(self, serialNumber, i) ==
    IF ~Has(self.infos, i)
    THEN [self |-> [self EXCEPT !.devinfo = Del(@, serialNumber),
                                !.refcount = Del(@, serialNumber)],
          exc |-> "KeyError", abandoned |-> TRUE]
    ELSE [self |-> [self EXCEPT !.devinfo = Del(@, serialNumber),
                                !.refcount = Del(@, serialNumber),
                                !.infos = Del(@, i)],
          exc |-> NoExc, abandoned |-> TRUE]

\* lines 367-368: abandon is called; abandonRaises: it raises
remove_abandon(self, serialNumber, abandonRaises) ==
    IF abandonRaises
    THEN [self |-> self, exc |-> "PluginError", abandoned |-> TRUE]
    ELSE remove_delete(self, serialNumber, Get(self.devinfo, serialNumber)[2])

\* lines 365-366: rel is what _wolock_release(serialNumber, None) did
remove_released(rel, serialNumber, abandonRaises) ==
    IF rel.exc # NoExc
    THEN [self |-> rel.self, exc |-> rel.exc, abandoned |-> FALSE]
    ELSE remove_abandon(rel.self, serialNumber, abandonRaises)

\* a _wolock_remove that gives no lease back, as if lines 365-366 were
\* missing
wolock_remove_keeps_leases(self, serialNumber, abandonRaises) ==
    IF ~validate(self, serialNumber)
    THEN [self |-> self, exc |-> "ValueError: unknown device", abandoned |-> FALSE]
    ELSE remove_abandon(self, serialNumber, abandonRaises)

\* Devices._wolock_remove: [self, exc, abandoned (abandon was called)]
wolock_remove(self, serialNumber, abandonRaises) ==
    IF ~validate(self, serialNumber)
    THEN [self |-> self, exc |-> "ValueError: unknown device", abandoned |-> FALSE]
    ELSE IF Get(self.refcount, serialNumber) > 0
    THEN remove_released(wolock_release(self, serialNumber, None), serialNumber,
                         abandonRaises)
    ELSE remove_abandon(self, serialNumber, abandonRaises)

---------------------------------------------------------------------------
(* Devices.rescan, as a function of what the plugins do during the pass:   *)
(* scan[dc] is dc.rescan(): [ok |-> FALSE, ..] when it raises, else the    *)
(* identifiers it lists; adopts[sn] is what adopt(sn) does; abandon raises *)
(* for the identifiers in abandonRaises.                                   *)

Range(l) == {l[n] : n \in DOMAIN l}

deviceIds(scan, dc) == IF scan[dc].ok THEN scan[dc].ids ELSE {}

\* lines 129-143: the identifiers the plugins list
scannedSerialNumbers(scan) == UNION {deviceIds(scan, dc) : dc \in Plugins}

\* lines 138-144: _g_device_id_class[deviceId] = dc, the last plugin wins
rescan_id_class(id_class, scan) ==
    [sn \in DeviceIds |->
        LET owners == {n \in DOMAIN g_device_classes :
                            sn \in deviceIds(scan, g_device_classes[n])}
        IN  IF owners = {} THEN id_class[sn]
            ELSE g_device_classes[CHOOSE n \in owners : \A m \in owners : m <= n]]

\* a filter that stops after the whitelist, as if lines 147-148 were missing
filterSerialNumbers_whitelist_only(serialNumbers, wl, bl) ==
    IF wl # <<>> THEN serialNumbers \cap Range(wl) ELSE serialNumbers

\* lines 145-148: whitelist, then blacklist
filterSerialNumbers(serialNumbers, wl, bl) ==
    LET allowed == IF wl # <<>> THEN serialNumbers \cap Range(wl)
                   ELSE serialNumbers
    IN  IF bl # <<>> THEN allowed \ Range(bl) ELSE allowed

\* lines 150-159: find new devices, in sorted order, from SortedIds[n] on
RECURSIVE findNew(_, _, _, _)
findNew(self, serialNumbers, adopts, n) ==
    IF n > Len(SortedIds) THEN self
    ELSE IF SortedIds[n] \in serialNumbers /\ ~Has(self.devinfo, SortedIds[n])
    THEN findNew(wolock_add(self, SortedIds[n], adopts[SortedIds[n]]).self,
                 serialNumbers, adopts, n + 1)
    ELSE findNew(self, serialNumbers, adopts, n + 1)

\* lines 161-165: forget detached devices, over the copied key list from
\* keys[n] on; rm is what _wolock_remove(keys[n]) did, and its exception
\* leaves the loop
RECURSIVE forgetDetached(_, _, _, _, _, _)
forgetNext(rm, keys, serialNumbers, abandonRaises, abandoned, n) ==
    IF rm.exc # NoExc
    THEN [self |-> rm.self, exc |-> rm.exc,
          abandoned |-> IF rm.abandoned THEN abandoned \cup {keys[n]} ELSE abandoned]
    ELSE forgetDetached(rm.self, keys, serialNumbers, abandonRaises,
                        IF rm.abandoned THEN abandoned \cup {keys[n]} ELSE abandoned,
                        n + 1)

forgetDetached(self, keys, serialNumbers, abandonRaises, abandoned, n) ==
    IF n > Len(keys) THEN [self |-> self, exc |-> NoExc, abandoned |-> abandoned]
    ELSE IF keys[n] \in serialNumbers
    THEN forgetDetached(self, keys, serialNumbers, abandonRaises, abandoned, n + 1)
    ELSE forgetNext(wolock_remove(self, keys[n], keys[n] \in abandonRaises),
                    keys, serialNumbers, abandonRaises, abandoned, n)

\* the result of the pass: [self, id_class, exc, adopted, abandoned]
rescan_result(self, id_class, found, forgot) ==
    [self |-> forgot.self, id_class |-> id_class, exc |-> forgot.exc,
     adopted |-> Keys(found.devinfo) \ Keys(self.devinfo),
     abandoned |-> forgot.abandoned]

\* lines 161-165, after the new devices were found
rescan_forget(self, id_class, serialNumbers, found, abandonRaises) ==
    rescan_result(self, id_class, found,
                  forgetDetached(found, KeyList(found.devinfo), serialNumbers,
                                 abandonRaises, {}, 1))

\* lines 150-165, for the filtered serialNumbers
rescan_filtered(self, id_class, serialNumbers, adopts, abandonRaises) ==
    rescan_forget(self, id_class, serialNumbers,
                  findNew(self, serialNumbers, adopts, 1), abandonRaises)

\* Devices.rescan
rescan(self, id_class, wl, bl, scan, adopts, abandonRaises) ==
    rescan_filtered(self, rescan_id_class(id_class, scan),
                    filterSerialNumbers(scannedSerialNumbers(scan), wl, bl),
                    adopts, abandonRaises)

\* the identifiers a plugin can see: p1 sees every device, p2 only "B"
Visible(dc) == IF dc = "p1" THEN DeviceIds ELSE {"B"}

\* what dc.rescan() can do: raise, or list some identifiers (an empty list
\* is what line 134 makes of a raise)
ScanResults(dc) ==
    {[ok |-> FALSE, ids |-> {}]}
    \cup {[ok |-> TRUE, ids |-> S] : S \in (SUBSET Visible(dc)) \ {{}}}

Scans == {scan \in [Plugins -> UNION {ScanResults(dc) : dc \in Plugins}] :
            \A dc \in Plugins : scan[dc] \in ScanResults(dc)}

AdoptResults(serialNumber) ==
    {[ok |-> FALSE, d |-> Handle(serialNumber), i |-> DeviceInfo("A", TypeOf("A"))]}
    \cup {[ok |-> TRUE, d |-> Handle(serialNumber), i |-> i] :
            i \in AdoptInfos(serialNumber)}

AllAdoptResults == UNION {AdoptResults(sn) : sn \in DeviceIds}

---------------------------------------------------------------------------
(* Devices.acquire and Devices.release_all as functions.                   *)

\* lines 236-241: the devices one pass of acquire's loop can pick from
matchingAvailable(self, id_class, matchArgs) ==
    {s \in wolock_match(self, id_class, matchArgs) : available(self, id_class, s)}

\* a pass that tells the caller when the devices it matched are all taken,
\* instead of returning None as line 247 does
acquire_pass_says_unavailable(self, id_class, block, acq, matchArgs, key, timestamp) ==
    IF wolock_match(self, id_class, matchArgs) = {}
    THEN [self |-> self, then |-> "return", ret |-> None]
    ELSE IF matchingAvailable(self, id_class, matchArgs) # {}
    THEN [self |-> wolock_acquire(self, key, acq, timestamp),
          then |-> "return", ret |-> key]
    ELSE IF ~block
    THEN [self |-> self, then |-> "return", ret |-> "Unavailable"]
    ELSE [self |-> self, then |-> "sleep", ret |-> None]

\* a pass that, for a caller that blocks, waits until every device it
\* matched is free
acquire_pass_waits_for_all(self, id_class, block, acq, matchArgs, key, timestamp) ==
    IF wolock_match(self, id_class, matchArgs) = {}
    THEN [self |-> self, then |-> "return", ret |-> None]
    ELSE IF /\ matchingAvailable(self, id_class, matchArgs) # {}
            /\ block => matchingAvailable(self, id_class, matchArgs)
                           = wolock_match(self, id_class, matchArgs)
    THEN [self |-> wolock_acquire(self, key, acq, timestamp),
          then |-> "return", ret |-> key]
    ELSE IF ~block
    THEN [self |-> self, then |-> "return", ret |-> None]
    ELSE [self |-> self, then |-> "sleep", ret |-> None]

\* lines 235-249: one pass of the loop under the lock; key is what
\* random.choice picks. then: "return" (ret is returned) or "sleep"
acquire_pass(self, id_class, block, acq, matchArgs, key, timestamp) ==
    IF wolock_match(self, id_class, matchArgs) = {}
    THEN [self |-> self, then |-> "return", ret |-> None]
    ELSE IF matchingAvailable(self, id_class, matchArgs) # {}
    THEN [self |-> wolock_acquire(self, key, acq, timestamp),
          then |-> "return", ret |-> key]
    ELSE IF ~block
    THEN [self |-> self, then |-> "return", ret |-> None]
    ELSE [self |-> self, then |-> "sleep", ret |-> None]

\* what random.choice can pick in a pass
Choices(self, id_class, matchArgs) ==
    IF matchingAvailable(self, id_class, matchArgs) = {} THEN {None}
    ELSE matchingAvailable(self, id_class, matchArgs)

\* lines 306-307: the loop over the copied key list, from keys[n] on; an
\* exception of _wolock_release leaves the loop
RECURSIVE releaseKeys(_, _, _, _)
releaseNext(r, keys, acq, n) ==
    IF r.exc # NoExc THEN [self |-> r.self, exc |-> r.exc]
    ELSE releaseKeys(r.self, keys, acq, n + 1)

releaseKeys(self, keys, acq, n) ==
    IF n > Len(keys) THEN [self |-> self, exc |-> NoExc]
    ELSE releaseNext(wolock_release(self, keys[n], acq), keys, acq, n)

\* lines 305-307: the with-block of release_all
release_all_locked(self, acq) ==
    IF ~Has(self.acquirer, acq)
    THEN [self |-> self, exc |-> "KeyError"]
    ELSE releaseKeys(self, KeyList(Get(self.acquirer, acq)), acq, 1)

\* Devices.release_all, run without another caller in between
release_all(self, acq) ==
    IF ~Has(self.acquirer, acq)
    THEN [self |-> self, exc |-> "ValueError: unknown acquirer"]
    ELSE release_all_locked(self, acq)

\* Devices.release
release(self, key, acq) ==
    IF ~validate(self, key)
    THEN [self |-> self, exc |-> "ValueError: unknown device", acquirer |-> acq]
    ELSE wolock_release(self, key, acq)

\* lines 344-347: a is what _wolock_add did
add_adopted(a) ==
    [self |-> a.self,
     exc |-> IF a.exc # NoExc THEN "ValueError: error accessing" ELSE NoExc,
     adopt |-> TRUE]

\* an add that does not look at the blacklist, as if lines 340-341 were
\* missing
add_ignores_blacklist(self, id_class, bl, serialNumber, adopted) ==
    IF id_class[serialNumber] = None
    THEN [self |-> self, exc |-> "ValueError: not found", adopt |-> FALSE]
    ELSE IF Has(self.refcount, serialNumber)
    THEN [self |-> self, exc |-> "ValueError: already added", adopt |-> FALSE]
    ELSE add_adopted(wolock_add(self, serialNumber, adopted))

\* Devices.add: [self, exc, adopt (adopt was called)]
add(self, id_class, bl, serialNumber, adopted) ==
    IF id_class[serialNumber] = None
    THEN [self |-> self, exc |-> "ValueError: not found", adopt |-> FALSE]
    ELSE IF serialNumber \in Range(bl)
    THEN [self |-> self, exc |-> "ValueError: blacklisted", adopt |-> FALSE]
    ELSE IF Has(self.refcount, serialNumber)
    THEN [self |-> self, exc |-> "ValueError: already added", adopt |-> FALSE]
    ELSE add_adopted(wolock_add(self, serialNumber, adopted))

\* Devices.remove: [self, exc, abandoned (abandon was called)]
remove(self, serialNumber, force, abandonRaises) ==
    IF ~validate(self, serialNumber)
    THEN [self |-> self, exc |-> "ValueError: unknown device", abandoned |-> FALSE]
    ELSE IF Get(self.refcount, serialNumber) > 0 /\ ~force
    THEN [self |-> self, exc |-> "ValueError: busy", abandoned |-> FALSE]
    ELSE wolock_remove(self, serialNumber, abandonRaises)

---------------------------------------------------------------------------
(* Inputs of the calls. *)

\* **matchArgs: keys are the criteria given, each regexp is the set of
\* field values it matches
NoArgs == [keys |-> {}, id |-> {}, type |-> {}, sw |-> {}, hw |-> {},
           display |-> {}, free |-> "", busy |-> ""]

MatchArgs ==
    { NoArgs,
      [NoArgs EXCEPT !.keys = {"type"}, !.type = {"tablet-1"}],
      [NoArgs EXCEPT !.keys = {"busy"}, !.busy = "True"] }

\* the leases recorded on key, over all acquirers
Leases(ledger, key) ==
    LET held(n) == IF Has(ledger[n][2], key) THEN Len(Get(ledger[n][2], key)) ELSE 0
        sum[n \in 0..Len(ledger)] == IF n = 0 THEN 0 ELSE sum[n - 1] + held(n)
    IN  sum[Len(ledger)]

\* the clock read after one that gave now; it stands still at MaxClock
Later(t) == IF t < MaxClock THEN t + 1 ELSE t

Whitelists == {<<>>, <<"B">>}

---------------------------------------------------------------------------
(* State. pc[t] is where caller t is: idle, holding the lock inside        *)
(* acquire ("locked"), in acquire's time.sleep ("sleep"), or in            *)
(* release_all between its check and its with-block ("release_all").       *)
(* last is the most recent call that returned or raised: its name, what it *)
(* returned (ret) or raised (exc), for a lease taken or given back the     *)
(* device (ret) and the acquirer (who), and the identifiers the call       *)
(* called adopt and abandon on.                                            *)

\* pc[t] is where thread t is in Devices.acquire and the arguments of its
\* call: "idle" (not in the call), "locked" (in the with-block of line 235),
\* "sleep" (in time.sleep of line 249); slept: the call has slept before
IdlePc == [at |-> "idle", block |-> FALSE, acquirer |-> None, matchArgs |-> NoArgs,
           slept |-> FALSE]

Returned(op, ret, who, exc, adopted, abandoned) ==
    [op |-> op, ret |-> ret, who |-> who, exc |-> exc, adopted |-> adopted,
     abandoned |-> abandoned]

SetSelf(self) ==
    /\ devinfo' = self.devinfo
    /\ refcount' = self.refcount
    /\ acquirer' = self.acquirer
    /\ infos' = self.infos

\* the adopt results a pass can meet for the identifiers in new
Adopts(new) ==
    {adopts \in [new -> AllAdoptResults] :
        \A sn \in new : adopts[sn] \in AdoptResults(sn)}

\* the broker's fields and the plugin registry after the first rescan
Rescanned(r) ==
    /\ devinfo = r.self.devinfo
    /\ refcount = r.self.refcount
    /\ acquirer = r.self.acquirer
    /\ infos = r.self.infos
    /\ g_device_id_class = r.id_class
    /\ last = Returned("rescan", None, None, r.exc, r.adopted, r.abandoned)

\* lines 32-36, then Devices.__init__: reset() and the first rescan()
Constructed(wl, scans) ==
    /\ whitelist = wl
    /\ blacklist = <<>>
    /\ lock = NoThread
    /\ pc = [t \in Threads |-> IdlePc]
    /\ now = 0
    /\ \E scan \in scans :
         \E adopts \in Adopts(filterSerialNumbers(scannedSerialNumbers(scan),
                                                  wl, <<>>)) :
            Rescanned(rescan(reset, [sn \in DeviceIds |-> None], wl, <<>>, scan,
                             adopts, {}))

Init == Constructed(<<>>, Scans)

\* a call of op returns or raises what r says, leaving the broker as r.self
Return(op, r, ret, who, adopted, abandoned) ==
    /\ SetSelf(r.self)
    /\ last' = Returned(op, ret, who, r.exc, adopted, abandoned)

RescanReturn(r) ==
    /\ Return("rescan", r, None, None, r.adopted, r.abandoned)
    /\ g_device_id_class' = r.id_class

\* Devices.rescan
Rescan(scan, adopts, abandonRaises) ==
    /\ lock = NoThread
    /\ RescanReturn(rescan(Self, g_device_id_class, whitelist, blacklist, scan,
                           adopts, abandonRaises))
    /\ UNCHANGED <<whitelist, blacklist, lock, pc, now>>

AcquireReturn(r, acq) ==
    /\ r.then = "return"
    /\ SetSelf(r.self)
    /\ now' = IF r.ret # None THEN Later(now) ELSE now
    /\ last' = Returned("acquire", r.ret, IF r.ret # None THEN acq ELSE None,
                        NoExc, {}, {})

\* Devices.acquire by a caller that does not have to wait
Acquire(block, acq, matchArgs, key) ==
    /\ lock = NoThread
    /\ key \in Choices(Self, g_device_id_class, matchArgs)
    /\ key # None => Leases(acquirer, key) < MaxLeases
    /\ AcquireReturn(acquire_pass(Self, g_device_id_class, block,
                                  IF acq = None THEN "" ELSE acq, matchArgs, key,
                                  now),
                     IF acq = None THEN "" ELSE acq)
    /\ UNCHANGED <<g_device_id_class, whitelist, blacklist, lock, pc>>

ReleaseReturn(r, key) ==
    Return("release", r, IF r.exc = NoExc THEN key ELSE None,
           IF r.exc = NoExc THEN r.acquirer ELSE None, {}, {})

\* Devices.release
Release(key, acq) ==
    /\ lock = NoThread
    /\ ReleaseReturn(release(Self, key, acq), key)
    /\ UNCHANGED <<g_device_id_class, whitelist, blacklist, lock, pc, now>>

\* Devices.release_all by a caller no other caller interleaves with
ReleaseAll(acq) ==
    /\ lock = NoThread
    /\ Return("release_all", release_all(Self, acq), None, None, {}, {})
    /\ UNCHANGED <<g_device_id_class, whitelist, blacklist, lock, pc, now>>

AddReturn(r, serialNumber) ==
    Return("add", r, None, None, IF r.adopt THEN {serialNumber} ELSE {}, {})

\* Devices.add
Add(serialNumber, adopted) ==
    /\ g_device_id_class[serialNumber] # None => lock = NoThread
    /\ AddReturn(add(Self, g_device_id_class, blacklist, serialNumber, adopted),
                 serialNumber)
    /\ UNCHANGED <<g_device_id_class, whitelist, blacklist, lock, pc, now>>

RemoveReturn(r, serialNumber) ==
    Return("remove", r, None, None, {}, IF r.abandoned THEN {serialNumber} ELSE {})

\* Devices.remove
Remove(serialNumber, force, abandonRaises) ==
    /\ lock = NoThread
    /\ RemoveReturn(remove(Self, serialNumber, force, abandonRaises), serialNumber)
    /\ UNCHANGED <<g_device_id_class, whitelist, blacklist, lock, pc, now>>

\* a blacklist_include without the test of line 384: it appends always
BlacklistIncludeAgain(serialNumber) ==
    /\ lock = NoThread
    /\ blacklist' = Append(blacklist, serialNumber)
    /\ last' = Returned("blacklist_include", None, None, NoExc, {}, {})
    /\ UNCHANGED <<devinfo, refcount, acquirer, infos, g_device_id_class,
                   whitelist, lock, pc, now>>

\* Devices.blacklist_include
BlacklistInclude(serialNumber) ==
    /\ lock = NoThread
    /\ IF serialNumber \in Range(blacklist)
       THEN /\ blacklist' = blacklist
            /\ last' = Returned("blacklist_include", None, None,
                                "ValueError: already blacklisted", {}, {})
       ELSE /\ blacklist' = Append(blacklist, serialNumber)
            /\ last' = Returned("blacklist_include", None, None, NoExc, {}, {})
    /\ UNCHANGED <<devinfo, refcount, acquirer, infos, g_device_id_class,
                   whitelist, lock, pc, now>>

\* Devices.blacklist_exclude
BlacklistExclude(serialNumber) ==
    /\ lock = NoThread
    /\ IF serialNumber \notin Range(blacklist)
       THEN /\ blacklist' = blacklist
            /\ last' = Returned("blacklist_exclude", None, None,
                                "ValueError: not blacklisted", {}, {})
       ELSE /\ blacklist' = SelectSeq(blacklist, LAMBDA x : x # serialNumber)
            /\ last' = Returned("blacklist_exclude", None, None, NoExc, {}, {})
    /\ UNCHANGED <<devinfo, refcount, acquirer, infos, g_device_id_class,
                   whitelist, lock, pc, now>>

---------------------------------------------------------------------------
(* The calls, made one after the other. *)

\* the identifiers the administrator puts on the blacklist
Deniable == {"B"}

\* the identifiers a pass with these listings keeps or finds
Seen(scan) == filterSerialNumbers(scannedSerialNumbers(scan), whitelist, blacklist)

RescanCall ==
    \E scan \in Scans :
        \E adopts \in Adopts(Seen(scan) \ Keys(devinfo)),
           abandonRaises \in SUBSET (Keys(devinfo) \ Seen(scan)) :
            Rescan(scan, adopts, abandonRaises)

\* acquirer=None stands for the anonymous acquirer ""
AcquirerArgs == (AcquirerIds \ {""}) \cup {None}

AcquireCall ==
    \E acq \in AcquirerArgs, matchArgs \in MatchArgs, key \in DeviceIds \cup {None} :
        Acquire(FALSE, acq, matchArgs, key)

ReleaseCall ==
    \E key \in DeviceIds, acq \in AcquirerIds \cup {None} : Release(key, acq)

ReleaseAllCall == \E acq \in AcquirerIds : ReleaseAll(acq)

AddCall ==
    \E serialNumber \in DeviceIds :
        \E adopted \in AdoptResults(serialNumber) : Add(serialNumber, adopted)

RemoveCall ==
    \E serialNumber \in DeviceIds, force \in BOOLEAN, abandonRaises \in BOOLEAN :
        Remove(serialNumber, force, abandonRaises)

BlacklistIncludeCall == \E serialNumber \in Deniable : BlacklistInclude(serialNumber)

BlacklistExcludeCall == \E serialNumber \in DeviceIds : BlacklistExclude(serialNumber)

Next ==
    \/ RescanCall
    \/ AcquireCall
    \/ ReleaseCall
    \/ ReleaseAllCall
    \/ AddCall
    \/ RemoveCall

Spec == Init /\ [][Next]_vars

---------------------------------------------------------------------------
(* The administrator's calls: the broker is constructed with an empty or a *)
(* non-empty whitelist, and identifiers are put on and taken off the       *)
(* blacklist between the other calls.                                      *)

InitAdmin == \E wl \in Whitelists : Constructed(wl, Scans)

\* the clients while the administrator works: anonymous acquire of any
\* device, release for whoever holds a lease
AcquireAdmin == \E key \in DeviceIds \cup {None} : Acquire(FALSE, None, NoArgs, key)

ReleaseAdmin == \E key \in DeviceIds : Release(key, None)

NextAdmin ==
    \/ RescanCall
    \/ AddCall
    \/ RemoveCall
    \/ AcquireAdmin
    \/ ReleaseAdmin
    \/ BlacklistIncludeCall
    \/ BlacklistExcludeCall

SpecAdmin == InitAdmin /\ [][NextAdmin]_vars

---------------------------------------------------------------------------
(* The queries about one device, next to the calls of Spec. *)

\* DeviceInfo._asdict(), then dict(): the fields of the record by name
asdict(i) == [f \in {"id", "type", "sw", "hw", "display"} |-> i[f]]

\* Devices.info
info(self, key) ==
    IF ~validate(self, key)
    THEN [ret |-> None, exc |-> "ValueError: unknown device"]
    ELSE [ret |-> asdict(Get(self.devinfo, key)[2]), exc |-> NoExc]

\* Devices.acquired: self._refcount[key] raises KeyError for a key that is
\* not registered
acquired(self, key) ==
    IF ~Has(self.refcount, key)
    THEN [ret |-> None, exc |-> "KeyError"]
    ELSE IF Get(self.refcount, key) > 0
         THEN [ret |-> Get(self.devinfo, key)[1], exc |-> NoExc]
         ELSE [ret |-> None, exc |-> "ValueError: not acquired"]

\* a query returns or raises what r says and changes nothing
QueryReturn(op, r, key) ==
    /\ last' = Returned(op, r.ret, key, r.exc, {}, {})
    /\ UNCHANGED <<devinfo, refcount, acquirer, infos, g_device_id_class,
                   whitelist, blacklist, lock, pc, now>>

Info(key) ==
    /\ lock = NoThread
    /\ QueryReturn("info", info(Self, key), key)

\* Devices.acquired does not take the lock
Acquired(key) == QueryReturn("acquired", acquired(Self, key), key)

InfoCall == \E key \in DeviceIds : Info(key)

AcquiredCall == \E key \in DeviceIds : Acquired(key)

NextQueries == Next \/ InfoCall \/ AcquiredCall

SpecQueries == Init /\ [][NextQueries]_vars

---------------------------------------------------------------------------
(* Callers in threads: Devices.acquire with block=True holds the lock for  *)
(* one pass of its loop at a time and sleeps between the passes, while the *)
(* other calls take the lock for the whole of their with-block.            *)

\* lines 232-235: acquirer=None becomes "", the loop is entered and the lock
\* is taken
AcquireEnter(t, block, acq, matchArgs) ==
    /\ pc[t].at = "idle"
    /\ lock = NoThread
    /\ lock' = t
    /\ pc' = [pc EXCEPT ![t] = [at |-> "locked", block |-> block,
                                acquirer |-> IF acq = None THEN "" ELSE acq,
                                matchArgs |-> matchArgs, slept |-> FALSE]]
    /\ UNCHANGED <<devinfo, refcount, acquirer, infos, g_device_id_class,
                   whitelist, blacklist, now, last>>

\* a sleep inside the with-block: the sleeping thread keeps the lock
LockKeptWhileBlocked(t) == t

\* who holds the lock while t is in time.sleep: line 249 is outside the
\* with-block of line 235, so the lock was released
LockWhileBlocked(t) == NoThread

\* lines 236-249 after a pass that did r: return and leave the with-block,
\* or leave the with-block and sleep
AcquirePassed(t, r) ==
    /\ SetSelf(r.self)
    /\ IF r.then = "return"
       THEN /\ lock' = NoThread
            /\ pc' = [pc EXCEPT ![t] = IdlePc]
            /\ now' = IF r.ret # None THEN Later(now) ELSE now
            /\ last' = Returned("acquire", r.ret,
                                IF r.ret # None THEN pc[t].acquirer ELSE None,
                                NoExc, {}, {})
       ELSE /\ lock' = LockWhileBlocked(t)
            /\ pc' = [pc EXCEPT ![t].at = "sleep", ![t].slept = TRUE]
            /\ UNCHANGED <<now, last>>

\* lines 236-249: one pass of the loop, under the lock
AcquireBody(t) ==
    /\ pc[t].at = "locked"
    /\ lock = t
    /\ \E key \in Choices(Self, g_device_id_class, pc[t].matchArgs) :
          AcquirePassed(t, acquire_pass(Self, g_device_id_class, pc[t].block,
                                        pc[t].acquirer, pc[t].matchArgs, key, now))
    /\ UNCHANGED <<g_device_id_class, whitelist, blacklist>>

\* lines 249, 234-235: the sleep is over, the loop runs again and takes the
\* lock
AcquireRetry(t) ==
    /\ pc[t].at = "sleep"
    /\ lock = NoThread
    /\ lock' = t
    /\ pc' = [pc EXCEPT ![t].at = "locked"]
    /\ UNCHANGED <<devinfo, refcount, acquirer, infos, g_device_id_class,
                   whitelist, blacklist, now, last>>

\* the plugins while the threads run: only p1 finds devices, every adopt
\* connects and reports the device's own info, no abandon raises
ThreadScans == {scan \in Scans : ~scan["p2"].ok}

Connects(serialNumber) ==
    [ok |-> TRUE, d |-> Handle(serialNumber),
     i |-> DeviceInfo(serialNumber, TypeOf(serialNumber))]

InitThreads == Constructed(<<>>, ThreadScans)

\* the acquirer each thread gives: t1 none, t2 its name
ThreadAcquirer(t) == IF t = "t1" THEN None ELSE "b"

\* the criteria the threads give: any device, or a tablet
ThreadMatchArgs == {matchArgs \in MatchArgs : "busy" \notin matchArgs.keys}

AcquireEnterCall ==
    \E t \in Threads, matchArgs \in ThreadMatchArgs :
        AcquireEnter(t, TRUE, ThreadAcquirer(t), matchArgs)

AcquireBodyStep == \E t \in Threads : AcquireBody(t)

AcquireRetryStep == \E t \in Threads : AcquireRetry(t)

RescanThreads ==
    \E scan \in ThreadScans :
        Rescan(scan, [sn \in Seen(scan) \ Keys(devinfo) |-> Connects(sn)], {})

AddThreads == \E serialNumber \in DeviceIds : Add(serialNumber, Connects(serialNumber))

RemoveThreads ==
    \E serialNumber \in DeviceIds, force \in BOOLEAN :
        Remove(serialNumber, force, FALSE)

NextThreads ==
    \/ AcquireEnterCall
    \/ AcquireBodyStep
    \/ AcquireRetryStep
    \/ ReleaseCall
    \/ RescanThreads
    \/ AddThreads
    \/ RemoveThreads

\* the scheduler lets a sleeping acquirer take the lock when the lock is
\* free again and again, and lets the holder of the lock run
Fairness ==
    \A t \in Threads : SF_vars(AcquireRetry(t)) /\ WF_vars(AcquireBody(t))

SpecThreads == InitThreads /\ [][NextThreads]_vars /\ Fairness

---------------------------------------------------------------------------
(* Devices.release_all by a caller in a thread: the test of lines 303-304  *)
(* runs before the lock is taken at line 305, so other callers can run     *)
(* between the two.                                                        *)

\* lines 303-304, without the lock: raise for an unknown acquirer, else go
\* on to the with-block
ReleaseAllCheck(t, acq) ==
    /\ pc[t].at = "idle"
    /\ IF ~Has(acquirer, acq)
       THEN /\ last' = Returned("release_all", None, None,
                                "ValueError: unknown acquirer", {}, {})
            /\ UNCHANGED pc
       ELSE /\ pc' = [pc EXCEPT ![t] = [IdlePc EXCEPT !.at = "release_all",
                                                      !.acquirer = acq]]
            /\ UNCHANGED last
    /\ UNCHANGED <<devinfo, refcount, acquirer, infos, g_device_id_class,
                   whitelist, blacklist, lock, now>>

\* lines 305-307: the with-block, entered when the lock is free
ReleaseAllBody(t) ==
    /\ pc[t].at = "release_all"
    /\ lock = NoThread
    /\ Return("release_all", release_all_locked(Self, pc[t].acquirer), None, None,
              {}, {})
    /\ pc' = [pc EXCEPT ![t] = IdlePc]
    /\ UNCHANGED <<g_device_id_class, whitelist, blacklist, lock, now>>

ReleaseAllCheckCall == \E t \in Threads, acq \in AcquirerIds : ReleaseAllCheck(t, acq)

ReleaseAllBodyStep == \E t \in Threads : ReleaseAllBody(t)

NextInterleaved == NextThreads \/ ReleaseAllCheckCall \/ ReleaseAllBodyStep

SpecInterleaved == InitThreads /\ [][NextInterleaved]_vars

---------------------------------------------------------------------------
(* What a caller can observe of the lease bookkeeping. *)

\* the lease count of d, none for a device that is not registered
Count(rc, d) == IF Has(rc, d) THEN Get(rc, d) ELSE 0

\* the lease timestamps recorded in ledger[a][d], oldest first
Stamps(ledger, a, d) ==
    IF Has(ledger, a) /\ Has(Get(ledger, a), d) THEN Get(Get(ledger, a), d)
    ELSE <<>>

\* no registered device matches the criteria
NoMatch(matchArgs) == wolock_match(Self, g_device_id_class, matchArgs) = {}

\* some registered device matches the criteria and every one that does is
\* at full capacity
Unavailable(matchArgs) ==
    /\ ~NoMatch(matchArgs)
    /\ matchingAvailable(Self, g_device_id_class, matchArgs) = {}

\* the step gave back exactly one lease, the most recent one, of acquirer a
\* on key, and nothing else of the bookkeeping changed
OneReleased(a, key) ==
    LET held == Stamps(acquirer, a, key)
    IN  /\ held # <<>>
        /\ Stamps(acquirer', a, key) = SubSeq(held, 1, Len(held) - 1)
        /\ \A n \in 1..Len(held) : held[n] <= held[Len(held)]
        /\ \A a2 \in AcquirerIds, d2 \in DeviceIds :
              <<a2, d2>> # <<a, key>>
                  => Stamps(acquirer', a2, d2) = Stamps(acquirer, a2, d2)
        /\ Keys(refcount') = Keys(refcount)
        /\ Count(refcount', key) = Count(refcount, key) - 1
        /\ \A d2 \in DeviceIds \ {key} : Count(refcount', d2) = Count(refcount, d2)

---------------------------------------------------------------------------
(* Properties of the calls made one after the other (Spec). *)

\* C1: the lease count of every registered device is the number of lease
\* timestamps the ledger records on it, over all acquirers.
C1_LeaseCountIsLedgerSum ==
    \A d \in Keys(refcount) : Get(refcount, d) = Leases(acquirer, d)

\* C2: the lease count of a registered device never exceeds the capacity of
\* the plugin that owns it now, unless that capacity is unlimited.
C2_LeaseCountWithinCapacity ==
    \A d \in Keys(refcount) :
        \/ maxRefCount(g_device_id_class[d]) = Unlimited
        \/ Get(refcount, d) <= maxRefCount(g_device_id_class[d])

\* C3, as stated: a non-blocking acquire whose criteria match no device and
\* one whose criteria match only devices at full capacity give the caller
\* different outcomes.
C3_OutcomesDistinct ==
    \A m1 \in MatchArgs, m2 \in MatchArgs :
        NoMatch(m1) /\ Unavailable(m2)
            => acquire_pass(Self, g_device_id_class, FALSE, "", m1, None, now).ret
                 # acquire_pass(Self, g_device_id_class, FALSE, "", m2, None, now).ret

\* C3, amended: a non-blocking acquire returns None both when its criteria
\* match no registered device and when every device they match is at full
\* capacity, and in both cases it changes no lease count and no ledger entry.
C3_NoLeaseReturnsNone ==
    [][\A acq \in AcquirerArgs, matchArgs \in MatchArgs :
          ( /\ last'.op = "acquire"
            /\ NoMatch(matchArgs) \/ Unavailable(matchArgs)
            /\ Acquire(FALSE, acq, matchArgs, None) )
              => /\ last'.ret = None
                 /\ last'.exc = NoExc
                 /\ refcount' = refcount
                 /\ acquirer' = acquirer]_vars

\* a non-blocking acquire has just returned None although every criteria set
\* matches a registered device: all of them are at full capacity
C3_UnavailableReturnedNone ==
    /\ last.op = "acquire"
    /\ last.ret = None
    /\ \A matchArgs \in MatchArgs : Unavailable(matchArgs)

\* C7: release fails and leaves lease counts and ledger alone when the
\* identifier is not registered, its lease count is zero or the acquirer has
\* no lease recorded on it; otherwise it takes one off the lease count and
\* the most recent timestamp off ledger[acquirer][identifier]. Without an
\* acquirer it does so for some acquirer that holds a lease on the device.
C7_Release ==
    [][\A key \in DeviceIds, acq \in AcquirerIds \cup {None} :
          (last'.op = "release" /\ Release(key, acq))
              => IF \/ ~Has(refcount, key)
                    \/ Get(refcount, key) = 0
                    \/ acq # None /\ Stamps(acquirer, acq, key) = <<>>
                 THEN /\ last'.exc # NoExc
                      /\ refcount' = refcount
                      /\ acquirer' = acquirer
                 ELSE IF acq # None
                 THEN last'.exc = NoExc /\ OneReleased(acq, key)
                 ELSE (\E a \in AcquirerIds : Stamps(acquirer, a, key) # <<>>)
                          => /\ last'.exc = NoExc
                             /\ \E a \in AcquirerIds : OneReleased(a, key)]_vars

\* a release has just given back the later of two leases taken at different
\* times by one acquirer
C7_ReleasedMostRecent ==
    /\ last.op = "release"
    /\ last.exc = NoExc
    /\ last.who # None
    /\ Stamps(acquirer, last.who, last.ret) = <<0>>
    /\ now = MaxClock

\* C8: release_all fails if the acquirer holds nothing; otherwise the
\* acquirer has no ledger entry afterwards and the lease count of each device
\* has dropped by the number of leases the acquirer held on it.
C8_ReleaseAllReleasesEveryLease ==
    [][\A acq \in AcquirerIds :
          (last'.op = "release_all" /\ ReleaseAll(acq))
              => IF ~Has(acquirer, acq)
                 THEN /\ last'.exc # NoExc
                      /\ refcount' = refcount
                      /\ acquirer' = acquirer
                 ELSE /\ ~Has(acquirer', acq)
                      /\ \A d \in Keys(refcount) :
                            Count(refcount', d)
                              = Count(refcount, d) - Len(Stamps(acquirer, acq, d))]_vars

\* an acquire by acq that picks key, then a release of key by acq
RoundTrip(acq, matchArgs, key) ==
    release(acquire_pass(Self, g_device_id_class, FALSE, acq, matchArgs, key,
                         now).self,
            key, acq)

\* r, what the release after the acquire did, is back at the lease count
\* before the acquire and has dropped the entries that hold no lease
Restored(r, acq, key) ==
    /\ r.exc = NoExc
    /\ Count(r.self.refcount, key) = Count(refcount, key)
    /\ Stamps(acquirer, acq, key) = <<>>
          => ~(Has(r.self.acquirer, acq) /\ Has(Get(r.self.acquirer, acq), key))
    /\ (\A d \in DeviceIds : Stamps(r.self.acquirer, acq, d) = <<>>)
          => ~Has(r.self.acquirer, acq)

\* C9: from every state and for every acquirer, an acquire that succeeds
\* followed by the release of the identifier it returned, by the same
\* acquirer, restores the lease count of the device, removes the acquirer's
\* ledger entry for the device if this was their only lease on it, and the
\* acquirer's whole entry if they then hold no lease at all.
C9_AcquireThenReleaseRestores ==
    \A acq \in AcquirerIds, matchArgs \in MatchArgs :
        \A key \in matchingAvailable(Self, g_device_id_class, matchArgs) :
            Restored(RoundTrip(acq, matchArgs, key), acq, key)

\* a release has just given back the only lease of its acquirer, who is gone
\* from the ledger, and the device is back at no lease
C9_OnlyLeaseGivenBack ==
    /\ last.op = "release"
    /\ last.exc = NoExc
    /\ last.who # None
    /\ ~Has(acquirer, last.who)
    /\ Count(refcount, last.ret) = 0
    /\ \E matchArgs \in MatchArgs :
          last.ret \in matchingAvailable(Self, g_device_id_class, matchArgs)

\* C6: after a rescan in which no adopt fails the registered identifiers are
\* the ones the plugins list, filtered by whitelist and blacklist: the new
\* ones were adopted, the ones gone were abandoned and removed, and the ones
\* kept have the same (handle, info), lease count and ledger entries.
C6_RescanReconciles ==
    [][\A scan \in Scans :
          \A adopts \in Adopts(Seen(scan) \ Keys(devinfo)),
             abandonRaises \in SUBSET (Keys(devinfo) \ Seen(scan)) :
              ( /\ last'.op = "rescan"
                /\ \A sn \in DOMAIN adopts : adopts[sn].ok
                /\ Rescan(scan, adopts, abandonRaises) )
                  => /\ Keys(devinfo') = Seen(scan)
                     /\ last'.adopted = Seen(scan) \ Keys(devinfo)
                     /\ last'.abandoned = Keys(devinfo) \ Seen(scan)
                     /\ \A d \in Keys(devinfo) \cap Seen(scan) :
                           /\ Get(devinfo', d) = Get(devinfo, d)
                           /\ Count(refcount', d) = Count(refcount, d)
                           /\ \A a \in AcquirerIds :
                                 Stamps(acquirer', a, d) = Stamps(acquirer, a, d)]_vars

\* C10: remove of an identifier that is not registered fails with the
\* unknown-device error; remove without force of a device with leases fails
\* with the busy error, changes nothing and calls no abandon; any other
\* remove abandons the device and deletes it from the registry.
C10_Remove ==
    [][\A serialNumber \in DeviceIds, force \in BOOLEAN, abandonRaises \in BOOLEAN :
          (last'.op = "remove" /\ Remove(serialNumber, force, abandonRaises))
              => IF ~Has(devinfo, serialNumber)
                 THEN last'.exc = "ValueError: unknown device"
                 ELSE IF Count(refcount, serialNumber) > 0 /\ ~force
                 THEN /\ last'.exc = "ValueError: busy"
                      /\ last'.abandoned = {}
                      /\ devinfo' = devinfo
                      /\ infos' = infos
                      /\ refcount' = refcount
                      /\ acquirer' = acquirer
                 ELSE /\ last'.abandoned = {serialNumber}
                      /\ ~Has(devinfo', serialNumber)]_vars

---------------------------------------------------------------------------
(* Properties of the callers in threads (SpecThreads). *)

\* d has a lease to give: its owner's capacity is unlimited or not reached
HasCapacity(d) ==
    \/ maxRefCount(g_device_id_class[d]) = Unlimited
    \/ Count(refcount, d) < maxRefCount(g_device_id_class[d])

\* the devices that match the criteria of t's call and have a lease to give
Leasable(t) ==
    {d \in wolock_match(Self, g_device_id_class, pc[t].matchArgs) : HasCapacity(d)}

\* t is in a blocking acquire that has not returned
Waiting(t) == pc[t].at # "idle" /\ pc[t].block

\* t is parked in the retry wait of a blocking acquire
Parked(t) == pc[t].at = "sleep" /\ pc[t].block

\* C4: a blocking acquire does not stay parked for ever once a matching
\* device is available and stays available, given that the waiting acquirer
\* is scheduled fairly; every pass of its loop, the first one and every
\* retry, matches and checks availability on the registry as it is then:
\* it returns a matching device that had a lease to give and takes that
\* lease whenever there is one, returns None when no device matches, and
\* goes on waiting otherwise.
C4_BlockingAcquireReturns ==
    /\ [][\A t \in Threads :
            (Waiting(t) /\ AcquireBody(t))
                => IF NoMatch(pc[t].matchArgs)
                   THEN pc'[t].at = "idle" /\ last'.ret = None
                   ELSE IF Leasable(t) # {}
                   THEN /\ pc'[t].at = "idle"
                        /\ last'.ret \in Leasable(t)
                        /\ last'.who = pc[t].acquirer
                        /\ Count(refcount', last'.ret) = Count(refcount, last'.ret) + 1
                   ELSE Parked(t)' /\ refcount' = refcount /\ acquirer' = acquirer]_vars
    /\ \A t \in Threads : []<>~(Waiting(t) /\ Leasable(t) # {})

\* a parked acquirer has taken the lock again for a retry, and a matching
\* device has become available since it went to sleep
C4_RetryFindsDevice ==
    \E t \in Threads :
        /\ pc[t].at = "locked"
        /\ pc[t].block
        /\ pc[t].slept
        /\ Leasable(t) # {}

\* C5: a blocking acquire parked in its retry wait does not hold the lock:
\* whenever an acquirer is parked and no other caller is inside its own
\* with-block, the lock is free, which is all a rescan needs to run, and a
\* release, an add and a remove by another caller can each take the lock
\* and complete.
C5_ParkedHoldsNoLock ==
    \A t \in Threads :
        Parked(t)
            => /\ lock # t
               /\ (\A u \in Threads : pc[u].at # "locked")
                     => /\ lock = NoThread
                        /\ ENABLED ReleaseCall
                        /\ ENABLED AddThreads
                        /\ ENABLED RemoveThreads

\* an acquirer is parked and a device it matches has got a lease to give
\* since: another caller took the lock and completed while it was parked
C5_OtherCallerCompleted ==
    \E t \in Threads : Parked(t) /\ Leasable(t) # {}

---------------------------------------------------------------------------
(* Properties of the administrator's calls (SpecAdmin). *)

\* the step left the registry, the lease counts, the reverse index and the
\* ledger as they were
RegistryUnchanged ==
    /\ devinfo' = devinfo
    /\ refcount' = refcount
    /\ infos' = infos
    /\ acquirer' = acquirer

\* C11: add fails, without calling adopt and with the registry unchanged, if
\* the identifier has no owning plugin, is on the blacklist or is registered
\* already; otherwise it calls adopt and registers the identifier with the
\* pair adopt returned and lease count 0, and when adopt fails it raises an
\* error and the registry is unchanged.
C11_Add ==
    [][\A serialNumber \in DeviceIds :
          \A adopted \in AdoptResults(serialNumber) :
              (last'.op = "add" /\ Add(serialNumber, adopted))
                  => IF \/ g_device_id_class[serialNumber] = None
                        \/ serialNumber \in Range(blacklist)
                        \/ Has(devinfo, serialNumber)
                     THEN /\ last'.exc # NoExc
                          /\ last'.adopted = {}
                          /\ RegistryUnchanged
                     ELSE IF ~adopted.ok
                     THEN /\ last'.exc # NoExc
                          /\ last'.adopted = {serialNumber}
                          /\ RegistryUnchanged
                     ELSE /\ last'.exc = NoExc
                          /\ last'.adopted = {serialNumber}
                          /\ Keys(devinfo') = Keys(devinfo) \cup {serialNumber}
                          /\ Get(devinfo', serialNumber) = <<adopted.d, adopted.i>>
                          /\ Has(refcount', serialNumber)
                          /\ Get(refcount', serialNumber) = 0
                          /\ \A d \in Keys(devinfo) :
                                /\ Get(devinfo', d) = Get(devinfo, d)
                                /\ Get(refcount', d) = Get(refcount, d)]_vars

\* an add has just adopted B and registered it with lease count 0 next to
\* a device that is leased
C11_AddedNextToLeased ==
    /\ last.op = "add"
    /\ last.exc = NoExc
    /\ last.adopted = {"B"}
    /\ Has(devinfo, "B")
    /\ Get(refcount, "B") = 0
    /\ \E d \in Keys(devinfo) \ {"B"} : Get(refcount, d) > 0

\* C12: while the whitelist is not empty, no rescan and no add registers an
\* identifier that is not on the whitelist, and none that is on the
\* blacklist, which is applied after the whitelist.
C12_OnlyAllowedRegistered ==
    [][whitelist # <<>>
          => (Keys(devinfo') \ Keys(devinfo))
                \subseteq (Range(whitelist) \ Range(blacklist))]_vars

\* C13, as stated: no identifier that is on the blacklist is in the
\* registry.
C13_NoDeniedRegistered == Range(blacklist) \cap Keys(devinfo) = {}

\* C13, amended: no call registers an identifier that is on the blacklist;
\* an identifier that is on the blacklist is in the registry only if it was
\* registered when it was put there and no rescan or remove has taken it out
\* since.
C13_NoDeniedGetsRegistered ==
    [][\A d \in Keys(devinfo') :
          d \in Range(blacklist) \cup Range(blacklist') => d \in Keys(devinfo)]_vars

\* an add of B has just failed because B is on the blacklist, and B is not
\* registered
C13_DeniedAddRefused ==
    /\ last.op = "add"
    /\ last.exc = "ValueError: blacklisted"
    /\ "B" \in Range(blacklist)
    /\ ~Has(devinfo, "B")

\* C14: blacklist_include changes the blacklist only, also for an identifier
\* that is registered: its registry entry, lease count and ledger are as
\* before; it fails when the identifier is on the blacklist already, and
\* blacklist_exclude fails when it is not, both leaving the blacklist as it
\* was.
C14_BlacklistCalls ==
    [][\A serialNumber \in DeviceIds :
          /\ (last'.op = "blacklist_include" /\ BlacklistInclude(serialNumber))
                => /\ RegistryUnchanged
                   /\ g_device_id_class' = g_device_id_class
                   /\ whitelist' = whitelist
                   /\ IF serialNumber \in Range(blacklist)
                      THEN last'.exc # NoExc /\ blacklist' = blacklist
                      ELSE /\ last'.exc = NoExc
                           /\ Range(blacklist') = Range(blacklist) \cup {serialNumber}
          /\ (last'.op = "blacklist_exclude" /\ BlacklistExclude(serialNumber))
                => /\ RegistryUnchanged
                   /\ IF serialNumber \notin Range(blacklist)
                      THEN last'.exc # NoExc /\ blacklist' = blacklist
                      ELSE /\ last'.exc = NoExc
                           /\ Range(blacklist') = Range(blacklist) \ {serialNumber}]_vars

\* blacklist_include has just put B on the blacklist while B is registered
\* and leased
C14_DeniedWhileLeased ==
    /\ last.op = "blacklist_include"
    /\ last.exc = NoExc
    /\ "B" \in Range(blacklist)
    /\ Has(devinfo, "B")
    /\ Get(refcount, "B") > 0
    /\ Leases(acquirer, "B") > 0

---------------------------------------------------------------------------
(* Properties of the plugin calls and of the indexes (Spec). *)

\* every registered device is in the reverse index under its own info
Indexed ==
    \A d \in Keys(devinfo) :
        Has(infos, Get(devinfo, d)[2]) /\ Get(infos, Get(devinfo, d)[2]) = d

\* C15: a plugin call that raises during rescan, be it a plugin's rescan,
\* the adopt of a new identifier or the abandon of one that is gone, does
\* not abort the pass: rescan returns, every other new identifier is
\* registered and every other identifier that is gone is removed.
C15_FaultsDoNotAbortRescan ==
    [][\A scan \in Scans :
          \A adopts \in Adopts(Seen(scan) \ Keys(devinfo)),
             abandonRaises \in SUBSET (Keys(devinfo) \ Seen(scan)) :
              ( /\ last'.op = "rescan"
                /\ Indexed
                /\ Rescan(scan, adopts, abandonRaises) )
                  => /\ last'.exc = NoExc
                     /\ \A sn \in Seen(scan) \ Keys(devinfo) :
                           adopts[sn].ok => Has(devinfo', sn)
                     /\ \A d \in Keys(devinfo) \ Seen(scan) :
                           d \notin abandonRaises => ~Has(devinfo', d)]_vars

\* C17: the forward index, the lease counts and the reverse index have
\* one entry each per registered device: the three key sets correspond one
\* to one and the reverse index leads from a device's info back to the
\* device, also when two registered devices report equal infos.
C17_IndexesCorrespond ==
    /\ Keys(refcount) = Keys(devinfo)
    /\ Indexed
    /\ Cardinality(Keys(infos)) = Cardinality(Keys(devinfo))
    /\ \A i \in Keys(infos) : Has(devinfo, Get(infos, i))

\* C19: when a device with leases is deleted from the registry, by remove
\* with force or by a rescan that no longer sees it, abandon was called for
\* it and exactly one lease timestamp on it left the ledger: the most
\* recent one of the first acquirer, in the ledger's order, that holds one;
\* every other timestamp on the device stays in the ledger.
C19_OneLeaseForceReleased ==
    [][\A d \in Keys(devinfo) \ Keys(devinfo') :
          Count(refcount, d) > 0
              => /\ d \in last'.abandoned
                 /\ \E n \in DOMAIN KeyList(acquirer) :
                       LET a == KeyList(acquirer)[n]
                           held == Stamps(acquirer, a, d)
                       IN  /\ held # <<>>
                           /\ \A m \in 1..(n - 1) :
                                 Stamps(acquirer, KeyList(acquirer)[m], d) = <<>>
                           /\ Stamps(acquirer', a, d) = SubSeq(held, 1, Len(held) - 1)
                           /\ \A a2 \in AcquirerIds \ {a} :
                                 Stamps(acquirer', a2, d) = Stamps(acquirer, a2, d)
                 /\ Leases(acquirer', d) = Leases(acquirer, d) - 1]_vars

\* a device that had two leases was removed with force, and one of the two
\* timestamps is still in the ledger
C19_LeaseLeftBehind ==
    /\ last.op = "remove"
    /\ last.exc = NoExc
    /\ \E d \in last.abandoned : ~Has(devinfo, d) /\ Leases(acquirer, d) = 1

\* C20: for every identifier the successful adopt calls and the abandon
\* calls alternate, adopt first: no call adopts a registered identifier,
\* abandon is called for registered identifiers only, and an identifier is
\* registered from its successful adopt until the abandon that follows.
C20_AdoptAbandonAlternate ==
    [][LET adoptedOk == IF last'.op = "add" /\ last'.exc # NoExc
                        THEN {} ELSE last'.adopted
       IN  /\ last'.adopted \cap Keys(devinfo) = {}
           /\ last'.abandoned \subseteq Keys(devinfo)
           /\ Keys(devinfo') = (Keys(devinfo) \cup adoptedOk) \ last'.abandoned]_vars

\* the step changed the lease count of key by the number by and the length
\* of the list of acquirer a on key by as much, and nothing else: not the
\* lists of other acquirers, not the lists of a on other devices, not the
\* lease counts of other devices, not the registry's entries and indexes
OnlyLeaseChanged(a, key, by) ==
    /\ devinfo' = devinfo
    /\ infos' = infos
    /\ g_device_id_class' = g_device_id_class
    /\ KeyList(refcount') = KeyList(refcount)
    /\ Count(refcount', key) = Count(refcount, key) + by
    /\ \A d2 \in DeviceIds \ {key} : Count(refcount', d2) = Count(refcount, d2)
    /\ Len(Stamps(acquirer', a, key)) = Len(Stamps(acquirer, a, key)) + by
    /\ \A a2 \in AcquirerIds, d2 \in DeviceIds :
          <<a2, d2>> # <<a, key>>
              => Stamps(acquirer', a2, d2) = Stamps(acquirer, a2, d2)

\* C21: a release(key, a) with an acquirer a given that succeeds changes
\* only the lease count of key and a's list of timestamps on key, and an
\* acquire that gives a lease changes only the lease count of the device
\* given and the caller's list of timestamps on it; the lists of other
\* acquirers, the caller's lists on other devices, the other lease counts
\* and the registry's entries and indexes stay as they were.
C21_LeaseCallsFrame ==
    [][/\ \A key \in DeviceIds, a \in AcquirerIds :
             (last'.op = "release" /\ last'.exc = NoExc /\ Release(key, a))
                 => OnlyLeaseChanged(a, key, -1)
       /\ \A acq \in AcquirerArgs, matchArgs \in MatchArgs, key \in DeviceIds :
             ( /\ last'.op = "acquire"
               /\ last'.ret = key
               /\ Acquire(FALSE, acq, matchArgs, key) )
                 => OnlyLeaseChanged(IF acq = None THEN "" ELSE acq, key, 1)]_vars

\* acquirer "b" gave back its lease on "B" by name, the automatic choice
\* would have been "", first in the ledger, which still holds its lease on
\* "B", and "b" still holds its lease on "A"
C21_ReleasedNextToOthers ==
    /\ last.op = "release"
    /\ last.exc = NoExc
    /\ last.ret = "B"
    /\ last.who = "b"
    /\ acquirer # <<>>
    /\ KeyList(acquirer)[1] = ""
    /\ Stamps(acquirer, "", "B") # <<>>
    /\ Stamps(acquirer, "b", "A") # <<>>

---------------------------------------------------------------------------
(* Properties of what the calls return (SpecQueries). *)

\* C16: no call returns the object a plugin's adopt gave for a device:
\* acquired(key) that returns returns the DeviceInfo of key, and info(key)
\* that returns returns the fields of the DeviceInfo of key.
C16_NoHandleReturned ==
    /\ last.op \notin {"acquired", "info"} => last.ret \in DeviceIds \cup {None}
    /\ (last.op = "acquired" /\ last.exc = NoExc)
          => last.ret = Get(devinfo, last.who)[2]
    /\ (last.op = "info" /\ last.exc = NoExc)
          => last.ret = asdict(Get(devinfo, last.who)[2])

---------------------------------------------------------------------------
(* Properties of the calls of concurrent callers (SpecInterleaved). *)

\* C18: no call sees the registry half updated by another caller: the
\* acquirer entry that release_all has found in the ledger is still there
\* when release_all goes on to use it.
C18_CheckedAcquirerStays ==
    \A t \in Threads : pc[t].at = "release_all" => Has(acquirer, pc[t].acquirer)

====
